---------------------------- MODULE Spec2Model ----------------------------
(***************************************************************************)
(* A model of super-process (src/src/lib.rs): the command model and its    *)
(* composition, the exit-status classifier, the synchronous executor, the  *)
(* streaming executor with its two-stream line merge, and the parsing of   *)
(* an environment dump.                                                    *)
(*                                                                         *)
(* Strings that the code only moves around (executables, arguments) are    *)
(* TLA+ strings; buffers that the code scans (captured output, the lines   *)
(* of an environment dump) are sequences of byte values.                   *)
(***************************************************************************)
EXTENDS Integers, Sequences, FiniteSets, TLC

(***************************************************************************)
(* Bounds of the model.                                                    *)
(***************************************************************************)
\* The longest line sequence a child writes to one of its streams.
MaxLines == 2
\* The number of lines a pipe holds before the child's write blocks.
PipeCap == 1

VARIABLES
  \* ---- stream::Streaming and the child behind it ----
  command,      \* Streaming.command: the CommandSpec given to invoke_streaming
  outSrc,       \* the lines the child writes to stdout, in order
  errSrc,       \* the lines the child writes to stderr, in order
  outWritten,   \* how many stdout lines the child has written into the pipe
  errWritten,   \* how many stderr lines the child has written into the pipe
  outClosed,    \* the child has closed its end of stdout
  errClosed,    \* the child has closed its end of stderr
  childStatus,  \* the child's exit status once it has exited, else NoStatus
  out_lines,    \* how many lines BufReader::lines has taken from stdout
  err_lines,    \* how many lines BufReader::lines has taken from stderr
  pc,           \* the position of the draining task
  line,         \* the StdioLine the merge produced for this round
  delivered,    \* history: each call of act(): the StdioLine passed and what it returned
  rounds,       \* history: what each poll of the merge saw and what it chose
  status,       \* the ExitStatus child.status() returned
  result,       \* what invoke_streaming / exhaust_output_streams_and_wait returned
  \* ---- exe::CommandError::analyze_exit_status ----
  exitStatus,   \* the process::ExitStatus to classify
  outcome,      \* what analyze_exit_status returned for it
  \* ---- exe::Command composition ----
  base,         \* the exe::Command being composed (self / base)
  before,       \* history: base as it was when the last operation was called
  lastOp,       \* history: the last operation, its argument, whether it aborted
  \* ---- sync::SyncInvocable ----
  syncCommand,  \* the exe::Command invoke() is called on
  syncRun,      \* what command.output().await gives: a process::Output or an io::Error
  syncResult,   \* what invoke() returned
  \* ---- sh::EnvAfterScript ----
  envStdout,    \* the bytes extract_stdout() returned
  envResult     \* what extract_env_bindings() returned

streamVars == <<command, outSrc, errSrc, outWritten, errWritten, outClosed,
                errClosed, childStatus, out_lines, err_lines, pc, line,
                delivered, rounds, status, result>>

classifyVars == <<exitStatus, outcome>>
composeVars == <<base, before, lastOp>>
syncVars == <<syncCommand, syncRun, syncResult>>
envVars == <<envStdout, envResult>>

vars == <<streamVars, classifyVars, composeVars, syncVars, envVars>>

(***************************************************************************)
(* exe: the command model.                                                 *)
(***************************************************************************)
\* exe::Command; wd is None or a directory, env is a sequence of <<name, value>>.
Command(exe, wd, argv, env) == [exe |-> exe, wd |-> wd, argv |-> argv, env |-> env]

\* Command::default(): every field empty.
DefaultCommand == Command("", "None", <<>>, <<>>)

\* Exe::is_empty
ExeIsEmpty(exe) == exe = ""

(***************************************************************************)
(* exe: exit statuses and their classification.                            *)
(***************************************************************************)
\* process::ExitStatus as ExitStatusExt shows it: an exit code, or the signal
\* that ended the process.
Exited(code) == [kind |-> "code", n |-> code]
Signaled(sig) == [kind |-> "signal", n |-> sig]

\* A termination set that also holds SIGHUP, SIGABRT and SIGKILL.
TERM_SIGNALS_with_kill == {15, 3, 2, 1, 6, 9}

\* signal_hook::consts::TERM_SIGNALS: SIGTERM, SIGQUIT, SIGINT.
TERM_SIGNALS == {15, 3, 2}

\* SIGNAL_NAMES: the table signal_pairs! builds, with the numbers the names
\* have on Linux (x86-64, aarch64).
SIGNAL_NAMES ==
  { <<6, "SIGABRT">>, <<14, "SIGALRM">>, <<7, "SIGBUS">>, <<17, "SIGCHLD">>,
    <<18, "SIGCONT">>, <<8, "SIGFPE">>, <<1, "SIGHUP">>, <<4, "SIGILL">>,
    <<2, "SIGINT">>, <<29, "SIGIO">>, <<9, "SIGKILL">>, <<13, "SIGPIPE">>,
    <<27, "SIGPROF">>, <<3, "SIGQUIT">>, <<11, "SIGSEGV">>, <<19, "SIGSTOP">>,
    <<31, "SIGSYS">>, <<15, "SIGTERM">>, <<5, "SIGTRAP">>, <<20, "SIGTSTP">>,
    <<21, "SIGTTIN">>, <<22, "SIGTTOU">>, <<23, "SIGURG">>, <<10, "SIGUSR1">>,
    <<12, "SIGUSR2">>, <<26, "SIGVTALRM">>, <<28, "SIGWINCH">>,
    <<24, "SIGXCPU">>, <<25, "SIGXFSZ">> }

\* SIGNAL_NAMES.get(&signal): Some(name) or None.
SignalNamesGet(signal) ==
  IF \E p \in SIGNAL_NAMES : p[1] = signal
    THEN [some |-> TRUE, name |-> (CHOOSE p \in SIGNAL_NAMES : p[1] = signal)[2]]
    ELSE [some |-> FALSE, name |-> ""]

\* The value of a call that panicked (unwrap on None, unreachable!).
Panic == [kind |-> "panic"]

\* CommandError::analyze_exit_status: Ok(()), Err(CommandError) or a panic.
analyze_exit_status(st) ==
  IF st.kind = "code"
    THEN IF st.n = 0
           THEN [kind |-> "Ok"]
           ELSE [kind |-> "NonZeroExit", code |-> st.n]
    ELSE IF st.kind = "signal"
      THEN LET name == SignalNamesGet(st.n) IN
           IF ~name.some
             THEN Panic
             ELSE IF st.n \in TERM_SIGNALS
               THEN [kind |-> "ProcessTerminated", signal |-> st.n, name |-> name.name]
               ELSE [kind |-> "ProcessKilled", signal |-> st.n, name |-> name.name]
      ELSE Panic

\* CommandError::command_with_context
command_with_context(error, cmd, context) ==
  [kind |-> "Err", command |-> cmd, context |-> context, error |-> error]

(***************************************************************************)
(* stream: the streaming executor.                                         *)
(***************************************************************************)
\* The text of the i-th line a child writes to a stream.  The code never
\* looks into a line, so a text that names its stream and its place stands
\* for any text, and tells a reordered, repeated or wrongly tagged line apart.
LineText(tag, i) == <<tag, i>>

\* A line that is not valid UTF-8: reading it yields an io::Error.
InvalidLine == <<"invalid utf-8", 0>>

NoText == <<"", 0>>

\* The sequences of a given length and less over a set.
RECURSIVE SeqsUpTo(_, _)
SeqsUpTo(S, n) ==
  IF n = 0 THEN {<<>>}
  ELSE LET shorter == SeqsUpTo(S, n - 1) IN
       shorter \cup {Append(s, x) : s \in {t \in shorter : Len(t) = n - 1}, x \in S}

\* What a child may write to one stream: up to MaxLines lines, any of them
\* not UTF-8.
ChildOutputs(tag) ==
  {[i \in 1..n |-> IF i \in bad THEN InvalidLine ELSE LineText(tag, i)] :
     n \in 0..MaxLines, bad \in SUBSET (1..MaxLines)}

\* The commands handed to invoke_streaming.
StreamCommands == {DefaultCommand, Command("echo", "None", <<"hey">>, <<>>)}

\* The statuses a child of the streaming executor ends with.
StreamStatuses == {Exited(0), Exited(1), Signaled(15)}

NoStatus == [kind |-> "none"]
NoLine == [tag |-> "none", text |-> NoText]
NoResult == [kind |-> "none"]

\* StdioLine::Out / StdioLine::Err
StdioLine(tag, text) == [tag |-> tag, text |-> text]

\* One poll of BufReader::new(stream).lines().next(): the next line when the
\* pipe holds one, the end of the stream when the pipe is empty and closed,
\* and otherwise Pending.  A dropped next() future loses nothing: the reader
\* keeps its buffer.
PollNext(src, taken, written, closed) ==
  IF taken < written
    THEN IF src[taken + 1] = InvalidLine
           THEN [poll |-> "ready", item |-> "error", text |-> NoText]
           ELSE [poll |-> "ready", item |-> "line", text |-> src[taken + 1]]
    ELSE IF closed
      THEN [poll |-> "ready", item |-> "eof", text |-> NoText]
      ELSE [poll |-> "pending", item |-> "", text |-> NoText]

\* The two wrapped futures of merge_streams: each tags what its stream gave.
TagPoll(p, tag) == [poll |-> p.poll, item |-> p.item, text |-> p.text, from |-> tag]

\* futures_lite::future::or(a, b): polls a, then b; the first that is ready.
FutureOr(a, b) == IF a.poll = "ready" THEN a ELSE b

\* A merge that tags each future with the other stream's tag.
merge_streams_swapped_tags(out, err) == FutureOr(TagPoll(err, "Out"), TagPoll(out, "Err"))

\* StdioLine::merge_streams(out, err)
merge_streams(out, err) == FutureOr(TagPoll(err, "Err"), TagPoll(out, "Out"))

PollOut == PollNext(outSrc, out_lines, outWritten, outClosed)
PollErr == PollNext(errSrc, err_lines, errWritten, errClosed)

\* What perLine (act) may return: Ok(()) or a CommandError.
ActResults == {"Ok", "Utf8"}

StreamInit ==
  /\ command \in StreamCommands
  /\ outSrc \in ChildOutputs("Out")
  /\ errSrc \in ChildOutputs("Err")
  /\ outWritten = 0
  /\ errWritten = 0
  /\ outClosed = FALSE
  /\ errClosed = FALSE
  /\ childStatus = NoStatus
  /\ out_lines = 0
  /\ err_lines = 0
  /\ pc = "start"
  /\ line = NoLine
  /\ delivered = <<>>
  /\ rounds = <<>>
  /\ status = NoStatus
  /\ result = NoResult

\* The streaming executor before any invocation: nothing spawned, nothing read.
StreamIdle ==
  /\ command = DefaultCommand
  /\ outSrc = <<>>
  /\ errSrc = <<>>
  /\ outWritten = 0
  /\ errWritten = 0
  /\ outClosed = FALSE
  /\ errClosed = FALSE
  /\ childStatus = NoStatus
  /\ out_lines = 0
  /\ err_lines = 0
  /\ pc = "idle"
  /\ line = NoLine
  /\ delivered = <<>>
  /\ rounds = <<>>
  /\ status = NoStatus
  /\ result = NoResult

childVars == <<outSrc, errSrc, outWritten, errWritten, outClosed, errClosed, childStatus>>
drainVars == <<out_lines, err_lines, pc, line, delivered, rounds, status, result>>

\* Streamable::invoke_streaming: Command::command() aborts on an empty exe;
\* spawn may fail; otherwise the child runs and the handle is returned.
InvokeStreaming ==
  /\ pc = "start"
  /\ IF ExeIsEmpty(command.exe)
       THEN pc' = "panic" /\ result' = result
       ELSE \E spawned \in BOOLEAN :
              IF spawned
                THEN pc' = "merge" /\ result' = result
                ELSE /\ pc' = "done"
                     /\ result' = command_with_context([kind |-> "Io"], command,
                                                       "spawning async process")
  /\ UNCHANGED <<classifyVars, composeVars, syncVars, envVars>>
  /\ UNCHANGED <<command, childVars, out_lines, err_lines, line, delivered, rounds, status>>

ChildRunning == pc \notin {"start", "panic"} /\ ~(pc = "done" /\ result.kind = "Err"
                                                   /\ result.context = "spawning async process")

\* The child writes its next stdout line; the write blocks while the pipe is full.
ChildWriteOut ==
  /\ ChildRunning
  /\ ~outClosed
  /\ outWritten < Len(outSrc)
  /\ outWritten - out_lines < PipeCap
  /\ outWritten' = outWritten + 1
  /\ UNCHANGED <<classifyVars, composeVars, syncVars, envVars>>
  /\ UNCHANGED <<command, outSrc, errSrc, errWritten, outClosed, errClosed, childStatus, drainVars>>

\* The child writes its next stderr line.
ChildWriteErr ==
  /\ ChildRunning
  /\ ~errClosed
  /\ errWritten < Len(errSrc)
  /\ errWritten - err_lines < PipeCap
  /\ errWritten' = errWritten + 1
  /\ UNCHANGED <<classifyVars, composeVars, syncVars, envVars>>
  /\ UNCHANGED <<command, outSrc, errSrc, outWritten, outClosed, errClosed, childStatus, drainVars>>

\* The child closes stdout, having written all of it.
ChildCloseOut ==
  /\ ChildRunning
  /\ ~outClosed
  /\ outWritten = Len(outSrc)
  /\ outClosed' = TRUE
  /\ UNCHANGED <<classifyVars, composeVars, syncVars, envVars>>
  /\ UNCHANGED <<command, outSrc, errSrc, outWritten, errWritten, errClosed, childStatus, drainVars>>

\* The child closes stderr, having written all of it.
ChildCloseErr ==
  /\ ChildRunning
  /\ ~errClosed
  /\ errWritten = Len(errSrc)
  /\ errClosed' = TRUE
  /\ UNCHANGED <<classifyVars, composeVars, syncVars, envVars>>
  /\ UNCHANGED <<command, outSrc, errSrc, outWritten, errWritten, outClosed, childStatus, drainVars>>

\* The child exits, both streams closed, with some status.
ChildExit ==
  /\ ChildRunning
  /\ outClosed /\ errClosed
  /\ childStatus = NoStatus
  /\ \E st \in StreamStatuses : childStatus' = st
  /\ UNCHANGED <<classifyVars, composeVars, syncVars, envVars>>
  /\ UNCHANGED <<command, outSrc, errSrc, outWritten, errWritten, outClosed, errClosed, drainVars>>

\* One round of the while-let loop of exhaust_output_streams_and_wait:
\* merge_streams(out_lines.next(), err_lines.next()).await?  The task is
\* suspended while both futures are pending.
MergeRound ==
  /\ pc = "merge"
  /\ LET got == merge_streams(PollOut, PollErr) IN
     /\ got.poll = "ready"
     /\ rounds' = Append(rounds, [out |-> PollOut, err |-> PollErr, got |-> got,
                                  outIdx |-> out_lines + 1])
     /\ out_lines' = IF got.from = "Out" /\ got.item # "eof" THEN out_lines + 1 ELSE out_lines
     /\ err_lines' = IF got.from = "Err" /\ got.item # "eof" THEN err_lines + 1 ELSE err_lines
     /\ CASE got.item = "line" ->
               /\ line' = StdioLine(got.from, got.text)
               /\ pc' = "act"
               /\ result' = result
          [] got.item = "eof" ->
               /\ line' = NoLine
               /\ pc' = "wait"
               /\ result' = result
          [] got.item = "error" ->
               /\ line' = NoLine
               /\ pc' = "done"
               /\ result' = command_with_context([kind |-> "Io"], command,
                                                 "merging async streams")
  /\ UNCHANGED <<classifyVars, composeVars, syncVars, envVars>>
  /\ UNCHANGED <<command, childVars, delivered, status>>

\* An act(line).await whose error is dropped instead of returned.
ActErrorIgnored ==
  /\ pc = "act"
  /\ line' = NoLine
  /\ \E r \in ActResults : delivered' = Append(delivered, [line |-> line, ret |-> r])
  /\ pc' = "merge"
  /\ UNCHANGED <<classifyVars, composeVars, syncVars, envVars>>
  /\ UNCHANGED <<command, childVars, out_lines, err_lines, rounds, status, result>>

\* act(line).await?
Act ==
  /\ pc = "act"
  /\ line' = NoLine
  /\ \E r \in ActResults :
       /\ delivered' = Append(delivered, [line |-> line, ret |-> r])
       /\ IF r = "Ok"
            THEN pc' = "merge" /\ result' = result
            ELSE /\ pc' = "done"
                 /\ result' = command_with_context([kind |-> r], command,
                                                   "merging async streams")
  /\ UNCHANGED <<classifyVars, composeVars, syncVars, envVars>>
  /\ UNCHANGED <<command, childVars, out_lines, err_lines, rounds, status>>

\* child.status().await?: returns once the child has exited, or fails.
Wait ==
  /\ pc = "wait"
  /\ \/ /\ childStatus # NoStatus
        /\ status' = childStatus
        /\ pc' = "classify"
        /\ result' = result
     \/ /\ status' = status
        /\ pc' = "done"
        /\ result' = command_with_context([kind |-> "Io"], command,
                                          "merging async streams")
  /\ UNCHANGED <<classifyVars, composeVars, syncVars, envVars>>
  /\ UNCHANGED <<command, childVars, out_lines, err_lines, line, delivered, rounds>>

\* A classification moved inside the merging block, so that its error is
\* wrapped with that block's context.
ClassifyInMergeStage ==
  /\ pc = "classify"
  /\ LET r == analyze_exit_status(status) IN
     IF r = Panic
       THEN pc' = "panic" /\ result' = result
       ELSE /\ pc' = "done"
            /\ result' = IF r.kind = "Ok"
                           THEN [kind |-> "Ok"]
                           ELSE command_with_context(r, command,
                                                     "merging async streams")
  /\ UNCHANGED <<classifyVars, composeVars, syncVars, envVars>>
  /\ UNCHANGED <<command, childVars, out_lines, err_lines, line, delivered, rounds, status>>

\* A drain that waits for the child and drops the result of analyze_exit_status.
ClassifyIgnoresStatus ==
  /\ pc = "classify"
  /\ pc' = "done"
  /\ result' = [kind |-> "Ok"]
  /\ UNCHANGED <<classifyVars, composeVars, syncVars, envVars>>
  /\ UNCHANGED <<command, childVars, out_lines, err_lines, line, delivered, rounds, status>>

\* analyze_exit_status(status).map_err(.. "checking async exit status")?; Ok(())
Classify ==
  /\ pc = "classify"
  /\ LET r == analyze_exit_status(status) IN
     IF r = Panic
       THEN pc' = "panic" /\ result' = result
       ELSE /\ pc' = "done"
            /\ result' = IF r.kind = "Ok"
                           THEN [kind |-> "Ok"]
                           ELSE command_with_context(r, command,
                                                     "checking async exit status")
  /\ UNCHANGED <<classifyVars, composeVars, syncVars, envVars>>
  /\ UNCHANGED <<command, childVars, out_lines, err_lines, line, delivered, rounds, status>>

(***************************************************************************)
(* The streaming executor: what the draining task has done so far.         *)
(***************************************************************************)
\* The texts act() was called with under one tag, in delivery order.
DeliveredOf(tag) ==
  LET tagged == SelectSeq(delivered, LAMBDA d : d.line.tag = tag)
  IN  [i \in DOMAIN tagged |-> tagged[i].line.text]

IsPrefix(s, t) == Len(s) <= Len(t) /\ \A i \in DOMAIN s : s[i] = t[i]

\* The merge loop has ended by itself: no line read and no act() call failed.
LoopEndedCleanly ==
  \/ pc \in {"wait", "classify"}
  \/ pc = "panic" /\ status # NoStatus
  \/ pc = "done" /\ result.kind = "Ok"
  \/ pc = "done" /\ result.kind = "Err" /\ result.context = "checking async exit status"
  \/ /\ pc = "done" /\ result.kind = "Err" /\ result.context = "merging async streams"
     /\ rounds # <<>> /\ rounds[Len(rounds)].got.item = "eof"

\* Every line the child writes can be read: no read of this run can fail.
AllLinesValid ==
  /\ \A i \in DOMAIN outSrc : outSrc[i] # InvalidLine
  /\ \A i \in DOMAIN errSrc : errSrc[i] # InvalidLine

\* A line read or an act() call has failed.
ReadFailed == rounds # <<>> /\ rounds[Len(rounds)].got.item = "error"
ActFailed == delivered # <<>> /\ delivered[Len(delivered)].ret # "Ok"
DrainFailed == ReadFailed \/ ActFailed

\* A round in which the next stdout line and the next stderr line were both ready.
TieRounds == {i \in DOMAIN rounds : rounds[i].out.item = "line" /\ rounds[i].err.item = "line"}

\* C1: when no line read and no perLine call fails, the merge loop ends only
\* with both streams exhausted: every line of stdout and of stderr has been
\* delivered to perLine exactly once when the exit status is awaited.
C1_LoopEndsWithBothExhausted ==
  (AllLinesValid /\ LoopEndedCleanly) =>
    /\ DeliveredOf("Out") = outSrc
    /\ DeliveredOf("Err") = errSrc

\* C2: in a round where the next stdout line and the next stderr line are
\* both ready, the stderr line is the one delivered, tagged stderr, and the
\* stdout line is delivered in a later round.
C2_TieGoesToStderrThenStdout ==
  /\ \A i \in TieRounds :
       /\ rounds[i].got.from = "Err"
       /\ rounds[i].got.item = "line"
       /\ rounds[i].got.text = rounds[i].err.text
  /\ (AllLinesValid /\ LoopEndedCleanly) =>
       \A i \in TieRounds : Len(DeliveredOf("Out")) >= rounds[i].outIdx

\* The part of C2 that is about one round: a tie goes to stderr, and the
\* stdout line that lost stays the next line of stdout.
TieGoesToStderr ==
  \A i \in TieRounds :
    /\ rounds[i].got.from = "Err"
    /\ rounds[i].got.item = "line"
    /\ rounds[i].got.text = rounds[i].err.text
    /\ i < Len(rounds) => rounds[i + 1].outIdx = rounds[i].outIdx

\* C3: the lines delivered with the stdout tag are, in order, a prefix of
\* the child's stdout lines, and those with the stderr tag a prefix of its
\* stderr lines: nothing reordered, duplicated, skipped or wrongly tagged.
C3_DeliveredArePrefixes ==
  /\ IsPrefix(DeliveredOf("Out"), outSrc)
  /\ IsPrefix(DeliveredOf("Err"), errSrc)
  /\ Len(delivered) = Len(DeliveredOf("Out")) + Len(DeliveredOf("Err"))

\* C3's case: a ready stdout line lost a round to stderr, and both it and
\* the stderr line were delivered afterwards.
C3_Witness ==
  /\ \E i \in TieRounds : Len(DeliveredOf("Out")) >= rounds[i].outIdx
  /\ Len(DeliveredOf("Err")) >= 1

\* C4: once a line read or a perLine call has failed, drain has returned that
\* error, and from then on perLine is not called and no line is taken from
\* either stream.
C4_StopsAtFirstFailure ==
  [][ /\ DrainFailed' =>
           /\ pc' = "done"
           /\ result'.kind = "Err"
           /\ result'.command = command
           /\ result'.error.kind = (IF ReadFailed' THEN "Io"
                                    ELSE delivered'[Len(delivered')].ret)
      /\ DrainFailed =>
           /\ delivered' = delivered
           /\ rounds' = rounds
           /\ out_lines' = out_lines
           /\ err_lines' = err_lines
           /\ status' = NoStatus
           /\ result' = result
           /\ pc' = pc ]_vars

\* C4's case: drain has failed while a written line is still waiting in a pipe,
\* and the child has gone on to exit.
C4_Witness ==
  /\ DrainFailed
  /\ pc = "done"
  /\ \/ out_lines < outWritten
     \/ err_lines < errWritten
  /\ Len(delivered) >= 1

\* drain has returned an error (invoke_streaming itself succeeded).
DrainReturnedErr ==
  /\ pc = "done"
  /\ result.kind = "Err"
  /\ result.context # "spawning async process"

\* C12: every error drain returns carries the CommandSpec given to
\* invoke_streaming and the context of the stage that failed: "merging async
\* streams" for a failed line read or perLine call, "checking async exit
\* status" for a failed classification; the inner error keeps its kind.
C12_ErrorsCarryCommandAndStage ==
  DrainReturnedErr =>
    /\ result.command = command
    /\ result.context \in {"merging async streams", "checking async exit status"}
    /\ ReadFailed =>
         /\ result.context = "merging async streams"
         /\ result.error = [kind |-> "Io"]
    /\ ActFailed =>
         /\ result.context = "merging async streams"
         /\ result.error = [kind |-> delivered[Len(delivered)].ret]
    /\ status # NoStatus =>
         /\ result.context = "checking async exit status"
         /\ status.kind = "code" =>
              result.error = [kind |-> "NonZeroExit", code |-> status.n]
         /\ status = Signaled(15) =>
              result.error = [kind |-> "ProcessTerminated", signal |-> 15,
                              name |-> "SIGTERM"]
    /\ result.context = "checking async exit status" =>
         /\ status # NoStatus
         /\ ~DrainFailed

\* C12's case: after at least one delivered line, the classification of a
\* child ended by SIGTERM has failed and drain has returned that error.
C12_Witness ==
  /\ DrainReturnedErr
  /\ result.context = "checking async exit status"
  /\ result.error.kind = "ProcessTerminated"
  /\ Len(delivered) >= 1

\* The merge loop has ended by itself, on an end-of-stream.
LoopEnded == rounds # <<>> /\ rounds[Len(rounds)].got.item = "eof"

\* C13: the wait for the exit status begins only after the merge loop has
\* ended and the status is classified only after the wait has returned: no
\* line is delivered once the wait has started, a loop that ended with a
\* failure is followed by no wait and no classification, and drain returns
\* success only for a status classified as Success.
C13_WaitThenClassifyAfterLoop ==
  [][ /\ pc' \in {"wait", "classify"} => LoopEnded'
      /\ pc' = "classify" => (pc = "wait" /\ status = NoStatus) \/ pc = "classify"
      /\ status' # NoStatus =>
           /\ LoopEnded'
           /\ status' = childStatus'
           /\ pc' \in {"classify", "done", "panic"}
      /\ LoopEnded =>
           /\ delivered' = delivered
           /\ rounds' = rounds
           /\ out_lines' = out_lines
           /\ err_lines' = err_lines
           /\ line' = NoLine
      /\ DrainFailed' =>
           /\ pc' = "done"
           /\ status' = NoStatus
      /\ (pc' = "done" /\ result'.kind = "Ok") =>
           /\ status' = Exited(0)
           /\ pc \in {"classify", "done"}
      /\ (DrainReturnedErr' /\ result'.context = "checking async exit status") =>
           /\ status' \notin {NoStatus, Exited(0)}
           /\ pc \in {"classify", "done"} ]_vars

\* C13's case: after delivered lines the loop ended, the wait returned a
\* nonzero status and drain returned its classification, not success.
C13_Witness ==
  /\ pc = "done"
  /\ LoopEnded
  /\ Len(delivered) >= 1
  /\ status = Exited(1)
  /\ result.kind = "Err"

\* The child cannot take a step: it has not exited, and each of its streams
\* is closed or has its next write blocked on a full pipe that nobody reads.
OutBlocked == ~outClosed /\ outWritten < Len(outSrc) /\ outWritten - out_lines >= PipeCap
ErrBlocked == ~errClosed /\ errWritten < Len(errSrc) /\ errWritten - err_lines >= PipeCap
ChildBlocked ==
  /\ childStatus = NoStatus
  /\ outClosed \/ OutBlocked
  /\ errClosed \/ ErrBlocked
  /\ OutBlocked \/ ErrBlocked

\* C14: drain terminates for a well-behaved child: no reachable state has
\* the drainer waiting for the exit status while the child is blocked
\* writing to a pipe that the drainer has stopped reading.
C14_NeverWaitsOnBlockedChild ==
  ~(pc = "wait" /\ ChildBlocked)


(***************************************************************************)
(* The exit classifier on its own: every exit status that carries a code   *)
(* or a signal is classified once.                                         *)
(***************************************************************************)
\* The largest exit code drawn.
MaxCode == 40
\* The largest signal number drawn (Linux reports 1..64, SIGRTMAX being 64).
MaxSignal == 64

ExitStatuses == {Exited(c) : c \in 0..MaxCode} \cup {Signaled(n) : n \in 1..MaxSignal}

ClassifyInit ==
  /\ exitStatus \in ExitStatuses
  /\ outcome = NoResult

ClassifyIdle ==
  /\ exitStatus = NoStatus
  /\ outcome = NoResult

\* A call of CommandError::analyze_exit_status(status).
AnalyzeExitStatus ==
  /\ outcome = NoResult
  /\ outcome' = analyze_exit_status(exitStatus)
  /\ UNCHANGED <<exitStatus, streamVars, composeVars, syncVars, envVars>>

\* C5: analyze_exit_status gives a typed outcome, and does not abort, for
\* every status with a code or a signal: 0 is Ok, a nonzero code c is
\* NonZeroExit(c), a signal of the termination set is ProcessTerminated and
\* every other signal is ProcessKilled.
C5_ClassifyIsTotal ==
  outcome # NoResult =>
    IF exitStatus.kind = "code"
      THEN IF exitStatus.n = 0
             THEN outcome.kind = "Ok"
             ELSE outcome.kind = "NonZeroExit" /\ outcome.code = exitStatus.n
      ELSE IF exitStatus.n \in {15, 3, 2}
             THEN outcome.kind = "ProcessTerminated" /\ outcome.signal = exitStatus.n
             ELSE outcome.kind = "ProcessKilled" /\ outcome.signal = exitStatus.n

\* What holds of the classifier as it is: C5's mapping for every code and
\* for every signal that SIGNAL_NAMES names; an abort for every other signal.
ClassifyTotalOnNamedSignals ==
  outcome # NoResult =>
    IF exitStatus.kind = "signal" /\ ~(\E p \in SIGNAL_NAMES : p[1] = exitStatus.n)
      THEN outcome = Panic
      ELSE C5_ClassifyIsTotal

\* C9: a process ended by SIGTERM is classified ProcessTerminated(15,
\* "SIGTERM") and one ended by SIGKILL ProcessKilled(9, "SIGKILL").
C9_TermVersusKill ==
  /\ (exitStatus = Signaled(15) /\ outcome # NoResult) =>
       outcome = [kind |-> "ProcessTerminated", signal |-> 15, name |-> "SIGTERM"]
  /\ (exitStatus = Signaled(9) /\ outcome # NoResult) =>
       outcome = [kind |-> "ProcessKilled", signal |-> 9, name |-> "SIGKILL"]

\* C9's case: a process ended by SIGKILL has been classified, as killed.
C9_Witness ==
  /\ exitStatus = Signaled(9)
  /\ outcome # NoResult
  /\ outcome.kind = "ProcessKilled"

(***************************************************************************)
(* Command composition: unshift_new_exe, unshift_shell_script and          *)
(* ShellScriptInvocation::setup_command.                                   *)
(***************************************************************************)
\* The longest argument vector a composition starts from.
MaxArgv == 2

\* Argv::unshift
ArgvUnshift(argv, leftmost_arg) == <<leftmost_arg>> \o argv

\* An unshift_new_exe that prepends the old exe without looking at it.
unshift_new_exe_unconditional(cmd, new_exe) ==
  IF ExeIsEmpty(new_exe)
    THEN Panic
    ELSE Command(new_exe, cmd.wd, ArgvUnshift(cmd.argv, cmd.exe), cmd.env)

\* Command::unshift_new_exe: the command it leaves in self, or a panic.
unshift_new_exe(cmd, new_exe) ==
  IF ExeIsEmpty(new_exe)
    THEN Panic
    ELSE LET argv == IF ~ExeIsEmpty(cmd.exe)
                       THEN ArgvUnshift(cmd.argv, cmd.exe)
                       ELSE cmd.argv
         IN  Command(new_exe, cmd.wd, argv, cmd.env)

\* An unshift_shell_script that unshifts sh first and the script second.
unshift_shell_script_sh_first(cmd, script_path) ==
  LET first == unshift_new_exe(cmd, "sh") IN
  IF first = Panic THEN Panic ELSE unshift_new_exe(first, script_path)

\* Command::unshift_shell_script
unshift_shell_script(cmd, script_path) ==
  LET first == unshift_new_exe(cmd, script_path) IN
  IF first = Panic THEN Panic ELSE unshift_new_exe(first, "sh")

\* ShellScriptInvocation::setup_command: Ok(base) after unshift_shell_script.
setup_command(script_path, cmd) == unshift_shell_script(cmd, script_path)

Exes == {"", "e", "sh", "/tmp/script"}
Args == {"x", "--"}
Dirs == {"None", "/wd"}
Envs == {<<>>, << <<"K", "v">> >>}

ComposeCommands ==
  {Command(e, wd, argv, env) : e \in Exes, wd \in Dirs,
                               argv \in SeqsUpTo(Args, MaxArgv), env \in Envs}

NoOp == [name |-> "none", arg |-> "", aborted |-> FALSE]

ComposeInit ==
  /\ base \in ComposeCommands
  /\ before = base
  /\ lastOp = NoOp

ComposeIdle ==
  /\ base = DefaultCommand
  /\ before = DefaultCommand
  /\ lastOp = NoOp

\* A call of base.unshift_new_exe(new_exe); a panic leaves base as it was.
UnshiftNewExe ==
  /\ lastOp.name = "none"
  /\ \E new_exe \in Exes :
       LET r == unshift_new_exe(base, new_exe) IN
       /\ before' = base
       /\ base' = IF r = Panic THEN base ELSE r
       /\ lastOp' = [name |-> "unshift_new_exe", arg |-> new_exe, aborted |-> r = Panic]
  /\ UNCHANGED <<streamVars, classifyVars, syncVars, envVars>>

\* A call of script.with_command(base).setup_command().
SetupCommand ==
  /\ lastOp.name = "none"
  /\ \E script_path \in Exes :
       LET r == setup_command(script_path, base) IN
       /\ before' = base
       /\ base' = IF r = Panic THEN base ELSE r
       /\ lastOp' = [name |-> "setup_command", arg |-> script_path, aborted |-> r = Panic]
  /\ UNCHANGED <<streamVars, classifyVars, syncVars, envVars>>

Unshifted == lastOp.name = "unshift_new_exe" /\ ~lastOp.aborted
SetUp == lastOp.name = "setup_command" /\ ~lastOp.aborted

\* C6: after unshift_new_exe with a non-empty new Executable, the Executable
\* is the new one and the argument vector is [old Executable] ++ [old
\* ArgumentVector], whatever the old Executable is.
C6_UnshiftPrependsOldExe ==
  Unshifted =>
    /\ base.exe = lastOp.arg
    /\ base.argv = <<before.exe>> \o before.argv

\* C6 as amended: the old Executable is prepended when it is not empty; an
\* empty old Executable leaves the argument vector as it was.  The working
\* directory and the environment are kept.
C6_UnshiftPrependsNonEmptyOldExe ==
  Unshifted =>
    /\ base.exe = lastOp.arg
    /\ before.exe # "" => base.argv = <<before.exe>> \o before.argv
    /\ before.exe = "" => base.argv = before.argv
    /\ base.wd = before.wd
    /\ base.env = before.env

\* C6's case: sh unshifted onto a command with a non-empty Executable e: the
\* result runs sh with e as its first argument.
C6_Witness ==
  /\ Unshifted
  /\ lastOp.arg = "sh"
  /\ before.exe = "e"
  /\ base.exe = "sh"
  /\ base.argv = <<"e">> \o before.argv
  /\ Len(before.argv) = MaxArgv

\* C7: setup_command gives Executable sh and the argument vector
\* [scriptPath, ...baseSpec's original argv], for every baseSpec.
C7_ScriptThenOriginalArgv ==
  SetUp =>
    /\ base.exe = "sh"
    /\ base.argv = <<lastOp.arg>> \o before.argv

\* C7 as amended: the argument vector is the script path, then baseSpec's
\* Executable when it has one, then baseSpec's original argv.
C7_ScriptThenBaseExeThenArgv ==
  SetUp =>
    /\ base.exe = "sh"
    /\ before.exe = "" => base.argv = <<lastOp.arg>> \o before.argv
    /\ before.exe # "" => base.argv = <<lastOp.arg, before.exe>> \o before.argv
    /\ base.wd = before.wd
    /\ base.env = before.env

\* C7's case: a script set up over a baseSpec that has an Executable and
\* arguments of its own.
C7_Witness ==
  /\ SetUp
  /\ lastOp.arg = "/tmp/script"
  /\ before.exe = "e"
  /\ before.argv # <<>>
  /\ base.argv = <<"/tmp/script", "e">> \o before.argv

(***************************************************************************)
(* sync: the synchronous executor.                                         *)
(***************************************************************************)
\* The longest captured stdout or stderr buffer.
MaxBytes == 2

\* A continuation byte of a UTF-8 sequence.
IsCont(b, i) == i <= Len(b) /\ b[i] \in 128..191

\* How many bytes the well-formed UTF-8 sequence at the head of b takes; 0
\* when b does not start with one (str::from_utf8 would return Utf8Error).
Utf8Head(b) ==
  LET b1 == b[1] IN
  IF b1 \in 0..127 THEN 1
  ELSE IF b1 \in 194..223 /\ IsCont(b, 2) THEN 2
  ELSE IF b1 = 224 /\ Len(b) >= 2 /\ b[2] \in 160..191 /\ IsCont(b, 3) THEN 3
  ELSE IF b1 \in (225..236) \cup (238..239) /\ IsCont(b, 2) /\ IsCont(b, 3) THEN 3
  ELSE IF b1 = 237 /\ Len(b) >= 2 /\ b[2] \in 128..159 /\ IsCont(b, 3) THEN 3
  ELSE IF b1 = 240 /\ Len(b) >= 2 /\ b[2] \in 144..191 /\ IsCont(b, 3) /\ IsCont(b, 4) THEN 4
  ELSE IF b1 \in 241..243 /\ IsCont(b, 2) /\ IsCont(b, 3) /\ IsCont(b, 4) THEN 4
  ELSE IF b1 = 244 /\ Len(b) >= 2 /\ b[2] \in 128..143 /\ IsCont(b, 3) /\ IsCont(b, 4) THEN 4
  ELSE 0

\* str::from_utf8(bytes).is_ok()
RECURSIVE Utf8Valid(_)
Utf8Valid(b) ==
  IF b = <<>> THEN TRUE
  ELSE LET n == Utf8Head(b) IN
       IF n = 0 THEN FALSE ELSE Utf8Valid(SubSeq(b, n + 1, Len(b)))

\* RawOutput
RawOutput(stdout, stderr) == [stdout |-> stdout, stderr |-> stderr]

\* RawOutput::decode: Ok(DecodedOutput), or the Utf8 error of the first
\* stream that is not UTF-8, with the command and the stream's context.
decode(raw, cmd) ==
  IF ~Utf8Valid(raw.stdout)
    THEN command_with_context([kind |-> "Utf8"], cmd, "when decoding stdout")
    ELSE IF ~Utf8Valid(raw.stderr)
      THEN command_with_context([kind |-> "Utf8"], cmd, "when decoding stderr")
      ELSE [kind |-> "Ok", value |-> [stdout |-> raw.stdout, stderr |-> raw.stderr]]

\* A RawOutput::extract that returns the error of a failed diagnostic decode.
extract_decode_error_returned(cmd, output) ==
  LET raw == RawOutput(output.stdout, output.stderr)
      r == analyze_exit_status(output.status)
  IN  IF r = Panic THEN Panic
      ELSE IF r.kind = "Ok" THEN [kind |-> "Ok", value |-> raw]
      ELSE IF decode(raw, cmd).kind # "Ok" THEN decode(raw, cmd)
      ELSE command_with_context(r, cmd,
             "when analyzing exit status for output " \o "(utf-8 decoded)")

\* RawOutput::extract
extract(cmd, output) ==
  LET raw == RawOutput(output.stdout, output.stderr)
      r == analyze_exit_status(output.status)
  IN  IF r = Panic THEN Panic
      ELSE IF r.kind = "Ok" THEN [kind |-> "Ok", value |-> raw]
      ELSE LET output_msg == IF decode(raw, cmd).kind = "Ok"
                               THEN "(utf-8 decoded)"
                               ELSE "(could not decode)"
           IN  command_with_context(r, cmd,
                 "when analyzing exit status for output " \o output_msg)

\* An invoke that hands an empty exe to the operating system, whose spawn
\* fails with an io::Error.
invoke_empty_exe_as_io_error(cmd, run) ==
  IF ExeIsEmpty(cmd.exe) \/ run.kind = "io_error"
    THEN command_with_context([kind |-> "Io"], cmd, "waiting for output")
    ELSE extract(cmd, run)

\* SyncInvocable::invoke for exe::Command, given what command.output() gives.
invoke(cmd, run) ==
  IF ExeIsEmpty(cmd.exe) THEN Panic
  ELSE IF run.kind = "io_error"
    THEN command_with_context([kind |-> "Io"], cmd, "waiting for output")
    ELSE extract(cmd, run)

\* 'h', the two bytes of U+00E9, and a byte that no UTF-8 text holds.
CapturedBytes == {104, 195, 169, 255}

Buffers == SeqsUpTo(CapturedBytes, MaxBytes)

SyncStatuses == {Exited(0), Exited(1), Exited(2), Signaled(15), Signaled(9), Signaled(16)}

SyncRuns ==
  {[kind |-> "io_error"]} \cup
  {[kind |-> "output", status |-> st, stdout |-> o, stderr |-> e] :
     st \in SyncStatuses, o \in Buffers, e \in Buffers}

SyncCommands == {DefaultCommand, Command("sh", "None", <<"-c", "exit 1">>, <<>>)}

SyncInit ==
  /\ syncCommand \in SyncCommands
  /\ syncRun \in SyncRuns
  /\ syncResult = NoResult

SyncIdle ==
  /\ syncCommand = DefaultCommand
  /\ syncRun = [kind |-> "none"]
  /\ syncResult = NoResult

\* A call of syncCommand.invoke().
Invoke ==
  /\ syncResult = NoResult
  /\ syncResult' = invoke(syncCommand, syncRun)
  /\ UNCHANGED <<syncCommand, syncRun, streamVars, classifyVars, composeVars, envVars>>

\* The process of the invocation ran to its end and exited with a nonzero code.
EndedNonZero ==
  /\ syncResult # NoResult
  /\ ~ExeIsEmpty(syncCommand.exe)
  /\ syncRun.kind = "output"
  /\ syncRun.status.kind = "code"
  /\ syncRun.status.n # 0

\* C8: invoke of a command whose process ends with nonzero code c returns an
\* error of kind NonZeroExit(c) carrying the submitted command, whether or
\* not the captured buffers are UTF-8 (that changes the context only), and
\* returns no RawOutput.
C8_NonZeroExitKeepsKind ==
  EndedNonZero =>
    /\ syncResult.kind = "Err"
    /\ syncResult.error = [kind |-> "NonZeroExit", code |-> syncRun.status.n]
    /\ syncResult.command = syncCommand
    /\ syncResult.context =
         (IF Utf8Valid(syncRun.stdout) /\ Utf8Valid(syncRun.stderr)
            THEN "when analyzing exit status for output (utf-8 decoded)"
            ELSE "when analyzing exit status for output (could not decode)")

\* C8's case: a process that exited nonzero having written bytes that are
\* not UTF-8: the error is still NonZeroExit.
C8_Witness ==
  /\ EndedNonZero
  /\ syncRun.status.n = 1
  /\ ~Utf8Valid(syncRun.stderr)
  /\ syncRun.stdout = <<195, 169>>
  /\ syncResult.kind = "Err"
  /\ syncResult.error.kind = "NonZeroExit"

(***************************************************************************)
(* sh: EnvAfterScript::extract_env_bindings, from the captured stdout on.  *)
(***************************************************************************)
\* The longest captured environment dump, in bytes.
MaxStdout == 6

\* '=' and '\n', '\r' as bytes.
EqualsByte == 61
NewlineByte == 10
ReturnByte == 13

\* The index of the first b in bytes, 0 when there is none (str::find).
Find(bytes, b) ==
  IF \E i \in DOMAIN bytes : bytes[i] = b
    THEN CHOOSE i \in DOMAIN bytes : bytes[i] = b /\ \A j \in 1..(i - 1) : bytes[j] # b
    ELSE 0

\* io::BufRead::lines on the bytes: split after each '\n'; a line loses its
\* "\n" or "\r\n"; bytes after the last '\n' are a last line.
RECURSIVE SplitLines(_)
SplitLines(bytes) ==
  IF bytes = <<>> THEN <<>>
  ELSE LET k == Find(bytes, NewlineByte) IN
       IF k = 0 THEN <<bytes>>
       ELSE LET l == SubSeq(bytes, 1, k - 1)
                stripped == IF l # <<>> /\ l[Len(l)] = ReturnByte
                              THEN SubSeq(l, 1, Len(l) - 1) ELSE l
            IN  <<stripped>> \o SplitLines(SubSeq(bytes, k + 1, Len(bytes)))

\* An insert that keeps the value a name already has.
IndexMapInsertKeepsFirst(map, key, value) ==
  IF \E i \in DOMAIN map : map[i][1] = key
    THEN map
    ELSE Append(map, <<key, value>>)

\* IndexMap::insert: a new key goes to the end; a key already there keeps
\* its place and gets the new value.
IndexMapInsert(map, key, value) ==
  IF \E i \in DOMAIN map : map[i][1] = key
    THEN [i \in DOMAIN map |-> IF map[i][1] = key THEN <<key, value>> ELSE map[i]]
    ELSE Append(map, <<key, value>>)

\* The for loop of extract_env_bindings over the lines left, env_map so far.
RECURSIVE ParseLines(_, _)
ParseLines(lines, env_map) ==
  IF lines = <<>> THEN [kind |-> "Ok", env |-> env_map]
  ELSE LET l == Head(lines) IN
       IF ~Utf8Valid(l)
         THEN [kind |-> "Err", context |-> "when extracting stdout line",
               error |-> [kind |-> "Io"]]
         ELSE LET equals_index == Find(l, EqualsByte) IN
              IF equals_index # 0
                THEN ParseLines(Tail(lines),
                       IndexMapInsert(env_map, SubSeq(l, 1, equals_index - 1),
                                      SubSeq(l, equals_index + 1, Len(l))))
                ELSE ParseLines(Tail(lines), env_map)

\* EnvAfterScript::extract_env_bindings, given the stdout of the script.
extract_env_bindings(stdout) == ParseLines(SplitLines(stdout), <<>>)

\* 'A', 'B', '=', '\n' and a byte that no UTF-8 text holds.
EnvBytes == {65, 66, 61, 10, 255}

EnvInit ==
  /\ envStdout \in SeqsUpTo(EnvBytes, MaxStdout)
  /\ envResult = NoResult

EnvIdle ==
  /\ envStdout = <<>>
  /\ envResult = NoResult

\* A call of extract_env_bindings(), past extract_stdout().
ExtractEnvBindings ==
  /\ envResult = NoResult
  /\ envResult' = extract_env_bindings(envStdout)
  /\ UNCHANGED <<envStdout, streamVars, classifyVars, composeVars, syncVars>>

\* The lines of the dump, when each of them is text.
EnvLines == SplitLines(envStdout)
EnvLinesAreText == \A i \in DOMAIN EnvLines : Utf8Valid(EnvLines[i])

\* line is name, '=', value, with no '=' in name.
SplitsInto(l, name, value) ==
  \E k \in DOMAIN l :
    /\ l[k] = 61
    /\ \A j \in 1..(k - 1) : l[j] # 61
    /\ name = SubSeq(l, 1, k - 1)
    /\ value = SubSeq(l, k + 1, Len(l))

HasEquals(l) == \E k \in DOMAIN l : l[k] = 61

\* C10: the overlay maps name to value for exactly the lines that contain
\* '=', each split at its first '='; a name on several lines appears once,
\* with the last line's value; a line with no '=' adds nothing, and no line
\* of text is an error.
C10_EnvOverlayFromLines ==
  (envResult # NoResult /\ EnvLinesAreText) =>
    /\ envResult.kind = "Ok"
    /\ LET m == envResult.env IN
       /\ \A i, j \in DOMAIN m : m[i][1] = m[j][1] => i = j
       /\ \A i \in DOMAIN m :
            \E n \in DOMAIN EnvLines :
              /\ SplitsInto(EnvLines[n], m[i][1], m[i][2])
              /\ \A later \in (n + 1)..Len(EnvLines) :
                   ~(\E v \in {SubSeq(EnvLines[later], k + 1, Len(EnvLines[later])) :
                                 k \in DOMAIN EnvLines[later]} :
                       SplitsInto(EnvLines[later], m[i][1], v))
       /\ \A n \in DOMAIN EnvLines :
            HasEquals(EnvLines[n]) =>
              \E i \in DOMAIN m :
                \E v \in {SubSeq(EnvLines[n], k + 1, Len(EnvLines[n])) :
                            k \in DOMAIN EnvLines[n]} :
                  SplitsInto(EnvLines[n], m[i][1], v)

\* C10's case: the name A on two lines with different values, the last of
\* which is an '=' of its own: one entry, A with the last value.
C10_Witness ==
  /\ envResult # NoResult
  /\ envResult.kind = "Ok"
  /\ Len(EnvLines) = 2
  /\ HasEquals(EnvLines[1])
  /\ EnvLines[1] # EnvLines[2]
  /\ envResult.env = << <<(<<65>>), (<<61>>)>> >>

Init == StreamInit /\ ClassifyIdle /\ ComposeIdle /\ SyncIdle /\ EnvIdle

Next ==
  \/ InvokeStreaming
  \/ ChildWriteOut
  \/ ChildWriteErr
  \/ ChildCloseOut
  \/ ChildCloseErr
  \/ ChildExit
  \/ MergeRound
  \/ Act
  \/ Wait
  \/ Classify

Spec == Init /\ [][Next]_vars

\* The exit classifier applied to every status.
InitClassify == ClassifyInit /\ StreamIdle /\ ComposeIdle /\ SyncIdle /\ EnvIdle
NextClassify == AnalyzeExitStatus
SpecClassify == InitClassify /\ [][NextClassify]_vars

\* One composition applied to every command.
InitCompose == ComposeInit /\ StreamIdle /\ ClassifyIdle /\ SyncIdle /\ EnvIdle
NextCompose == UnshiftNewExe \/ SetupCommand
SpecCompose == InitCompose /\ [][NextCompose]_vars

\* One synchronous invocation of every command with every run.
InitSync == SyncInit /\ StreamIdle /\ ClassifyIdle /\ ComposeIdle /\ EnvIdle
NextSync == Invoke
SpecSync == InitSync /\ [][NextSync]_vars

\* The environment dump parsed for every captured stdout.
InitEnv == EnvInit /\ StreamIdle /\ ClassifyIdle /\ ComposeIdle /\ SyncIdle
NextEnv == ExtractEnvBindings
SpecEnv == InitEnv /\ [][NextEnv]_vars

(***************************************************************************)
(* The contract violations of the command model, wherever they are         *)
(* reached: one run is one synchronous invocation, one streaming           *)
(* invocation or one composition.                                          *)
(***************************************************************************)
StreamActive == pc # "idle"
SyncActive == syncRun.kind # "none"
ComposeActive == ~StreamActive /\ ~SyncActive

InitContract == Init \/ InitSync \/ InitCompose

NextContract ==
  \/ StreamActive /\ Next
  \/ SyncActive /\ NextSync
  \/ ComposeActive /\ NextCompose

SpecContract == InitContract /\ [][NextContract]_vars

\* The child of the streaming invocation has not run: nothing written,
\* nothing closed, no exit.
NothingSpawned ==
  /\ outWritten = 0
  /\ errWritten = 0
  /\ ~outClosed
  /\ ~errClosed
  /\ childStatus = NoStatus

\* C11: executing a CommandSpec whose Executable is empty aborts, from invoke
\* and from invoke_streaming, before any process is spawned, and returns no
\* CommandError; unshift_new_exe with an empty new Executable aborts and
\* leaves the CommandSpec as it was.
C11_EmptyExeAborts ==
  /\ (SyncActive /\ ExeIsEmpty(syncCommand.exe) /\ syncResult # NoResult) =>
       syncResult = Panic
  /\ (StreamActive /\ ExeIsEmpty(command.exe) /\ pc # "start") =>
       /\ pc = "panic"
       /\ result = NoResult
       /\ NothingSpawned
  /\ (StreamActive /\ ExeIsEmpty(command.exe)) => NothingSpawned
  /\ (lastOp.name = "unshift_new_exe" /\ lastOp.arg = "") =>
       /\ lastOp.aborted
       /\ base = before

\* C11's case: invoke_streaming on a default CommandSpec has aborted, with a
\* child at hand that would have written to both streams.
C11_Witness ==
  /\ StreamActive
  /\ ExeIsEmpty(command.exe)
  /\ pc = "panic"
  /\ outSrc # <<>>
  /\ errSrc # <<>>

=============================================================================
